---- MODULE Spec2Model ----
(***************************************************************************)
(* A model of app_maplibre.js, the Orange County zoning explorer: the      *)
(* filter configuration, the in-memory filter (applyFilters and            *)
(* getCurrentFilteredData), the debounced search box and its timer, the    *)
(* layer toggles, the export dialog and the export writers, the analytics  *)
(* panel with its Chart instances, and the analytics aggregator            *)
(* (updateAnalyticsFromFeatures).  Time advances in steps of 100 ms.       *)
(*                                                                         *)
(* JavaScript values are carried as tagged records so that truthiness,     *)
(* `||` defaults and strict (in)equality are computed as the engine        *)
(* computes them.  Text is a sequence of one-character strings.  A numeric *)
(* date is the epoch value in whole days (the code's milliseconds divided  *)
(* by 86 400 000); the local time zone of getFullYear is taken to be UTC.  *)
(***************************************************************************)
EXTENDS Integers, Sequences, FiniteSets, TLC

VARIABLES
  mode,           \* outcome of loadData: "loading", "geojson", "pmtiles", "failed"
  zoningData,     \* state.zoningData: Null or the sequence of loaded features
  filters,        \* state.filters
  mapSource,      \* data held by the map's "zoning" source
  layerFilter,    \* filter property of the zoning-fill layer
  searchBox,      \* current text of #searchInput
  searchTimeout,  \* the handle searchTimeout: 0 (undefined) or a timer id
  timeouts,       \* the pending setTimeout calls, each with the time left
  handled,        \* the event handled last and whether it called applyFilters
  exportModal,    \* the export dialog: Closed or its field check boxes
  emitted,        \* file download and notification produced by the last handler
  analyticsPanel, \* state.analyticsPanel: "null", "shown" or "hidden"
  analytics,      \* the three mappings the charts were last built from
  charts,         \* state.charts and the live Chart instances of each slot
  layers,         \* visibility of the zoning and FLU layers, Null before they exist
  thrown,         \* whether the last handler ended in an uncaught exception
  infoPanels      \* the zoning-info panels in the document, in document order

vars == <<mode, zoningData, filters, mapSource, layerFilter, searchBox,
          searchTimeout, timeouts, handled, exportModal, emitted,
          analyticsPanel, analytics, charts, layers, thrown,
          infoPanels>>

-----------------------------------------------------------------------------
(* JavaScript values *)

Undef == [t |-> "undefined"]
Null == [t |-> "null"]
NaN == [t |-> "nan"]
Num(n) == [t |-> "number", num |-> n]
Str(s) == [t |-> "string", str |-> s]

\* ToBoolean: undefined, null, NaN, 0 and "" are falsy.
Truthy(x) ==
  CASE x.t = "undefined" -> FALSE
    [] x.t = "null" -> FALSE
    [] x.t = "nan" -> FALSE
    [] x.t = "number" -> x.num # 0
    [] x.t = "string" -> x.str # <<>>

\* a || b
OrElse(a, b) == IF Truthy(a) THEN a ELSE b

-----------------------------------------------------------------------------
(* Text *)

LowerOf ==
  [c \in {"A","B","C","D","E","F","G","H","I","J","K","L","M",
          "N","O","P","Q","R","S","T","U","V","W","X","Y","Z"} |->
     CASE c = "A" -> "a" [] c = "B" -> "b" [] c = "C" -> "c" [] c = "D" -> "d"
       [] c = "E" -> "e" [] c = "F" -> "f" [] c = "G" -> "g" [] c = "H" -> "h"
       [] c = "I" -> "i" [] c = "J" -> "j" [] c = "K" -> "k" [] c = "L" -> "l"
       [] c = "M" -> "m" [] c = "N" -> "n" [] c = "O" -> "o" [] c = "P" -> "p"
       [] c = "Q" -> "q" [] c = "R" -> "r" [] c = "S" -> "s" [] c = "T" -> "t"
       [] c = "U" -> "u" [] c = "V" -> "v" [] c = "W" -> "w" [] c = "X" -> "x"
       [] c = "Y" -> "y" [] c = "Z" -> "z"]

\* String.prototype.toLowerCase
ToLowerCase(s) ==
  [i \in 1..Len(s) |-> IF s[i] \in DOMAIN LowerOf THEN LowerOf[s[i]] ELSE s[i]]

\* String.prototype.includes
Includes(hay, needle) ==
  \E i \in 0..(Len(hay) - Len(needle)) :
    SubSeq(hay, i + 1, i + Len(needle)) = needle

-----------------------------------------------------------------------------
(* Dates: new Date(value).getFullYear() *)

\* Calendar year of an epoch day number (proleptic Gregorian calendar).
YearOfEpochDay(d) ==
  LET z == d + 719468
      era == z \div 146097
      doe == z - era * 146097
      yoe == (doe - doe \div 1460 + doe \div 36524 - doe \div 146096) \div 365
      doy == doe - (365 * yoe + yoe \div 4 - yoe \div 100)
      mp == (5 * doy + 2) \div 153
      m == IF mp < 10 THEN mp + 3 ELSE mp - 9
  IN  yoe + era * 400 + (IF m <= 2 THEN 1 ELSE 0)

\* Epoch day number of a calendar date.
EpochDayOfDate(y, m, d) ==
  LET yy == IF m <= 2 THEN y - 1 ELSE y
      era == yy \div 400
      yoe == yy - era * 400
      mp == IF m > 2 THEN m - 3 ELSE m + 9
      doy == (153 * mp + 2) \div 5 + d - 1
      doe == yoe * 365 + yoe \div 4 - yoe \div 100 + doy
  IN  era * 146097 + doe - 719468

DigitOf ==
  [c \in {"0","1","2","3","4","5","6","7","8","9"} |->
     CASE c = "0" -> 0 [] c = "1" -> 1 [] c = "2" -> 2 [] c = "3" -> 3
       [] c = "4" -> 4 [] c = "5" -> 5 [] c = "6" -> 6 [] c = "7" -> 7
       [] c = "8" -> 8 [] c = "9" -> 9]

\* Whether text has the ISO date-only form YYYY-MM-DD with a month and day in range.
IsIsoDate(s) ==
  /\ Len(s) = 10
  /\ \A i \in {1, 2, 3, 4, 6, 7, 9, 10} : s[i] \in DOMAIN DigitOf
  /\ s[5] = "-"
  /\ s[8] = "-"
  /\ 10 * DigitOf[s[6]] + DigitOf[s[7]] \in 1..12
  /\ 10 * DigitOf[s[9]] + DigitOf[s[10]] \in 1..31

\* The time value of new Date(x), in epoch days, or NaN (Invalid Date).
DateValue(x) ==
  CASE x.t = "number" -> Num(x.num)
    [] x.t = "string" ->
         IF IsIsoDate(x.str)
           THEN Num(EpochDayOfDate(
                  1000 * DigitOf[x.str[1]] + 100 * DigitOf[x.str[2]]
                    + 10 * DigitOf[x.str[3]] + DigitOf[x.str[4]],
                  10 * DigitOf[x.str[6]] + DigitOf[x.str[7]],
                  10 * DigitOf[x.str[9]] + DigitOf[x.str[10]]))
           ELSE NaN
    [] OTHER -> NaN

\* new Date(x).getFullYear(): NaN for an Invalid Date.
GetFullYear(x) ==
  LET tv == DateValue(x)
  IN  IF tv.t = "number" THEN Num(YearOfEpochDay(tv.num)) ELSE NaN

-----------------------------------------------------------------------------
(* Features and the filter configuration *)

FeatureCollection(fs) == [type |-> "FeatureCollection", features |-> fs]

\* const state = { ..., filters: {...}, ... }
DefaultFilters ==
  [group |-> <<"A","L","L">>, yearMin |-> 1980, yearMax |-> 2030,
   areaMin |-> 0, areaMax |-> 1000, search |-> <<>>,
   showZoning |-> TRUE, showFLU |-> FALSE]

\* The year expression of applyFilters: the first truthy date field decides.
FilterYear(props) ==
  IF Truthy(props.BCC_DATE) THEN GetFullYear(props.BCC_DATE)
  ELSE IF Truthy(props.P_Z_DATE) THEN GetFullYear(props.P_Z_DATE)
  ELSE IF Truthy(props.MAINT_DATE) THEN GetFullYear(props.MAINT_DATE)
  ELSE Null

\* The same expression as written a second time in getCurrentFilteredData.
ExportYear(props) ==
  IF Truthy(props.BCC_DATE) THEN GetFullYear(props.BCC_DATE)
  ELSE IF Truthy(props.P_Z_DATE) THEN GetFullYear(props.P_Z_DATE)
  ELSE IF Truthy(props.MAINT_DATE) THEN GetFullYear(props.MAINT_DATE)
  ELSE Null

\* ... and a third time in updateAnalyticsFromFeatures.
AnalyticsYear(props) ==
  IF Truthy(props.BCC_DATE) THEN GetFullYear(props.BCC_DATE)
  ELSE IF Truthy(props.P_Z_DATE) THEN GetFullYear(props.P_Z_DATE)
  ELSE IF Truthy(props.MAINT_DATE) THEN GetFullYear(props.MAINT_DATE)
  ELSE Null

\* Group filter of applyFilters: the feature is rejected when this holds.
GroupRejects(props, f) ==
  f.group # <<"A","L","L">> /\ props.z_group # Str(f.group)

\* A year filter that tests "not within the range": an Invalid Date fails it.
YearRejects_InvalidFails(year, f) ==
  /\ year # Null
  /\ ~ (year.t = "number" /\ year.num >= f.yearMin /\ year.num <= f.yearMax)

\* Year filter of applyFilters.
YearRejects(year, f) ==
  Truthy(year) /\ (year.num < f.yearMin \/ year.num > f.yearMax)

\* Area filter of applyFilters.
AreaRejects(props, f) ==
  LET area == OrElse(props.area_acres, Num(0))
  IN  area.num < f.areaMin \/ area.num > f.areaMax

\* A search filter that lower-cases the search term but not the fields.
SearchRejects_FieldsNotFolded(props, f) ==
  /\ Truthy(Str(f.search))
  /\ ~ \E i \in 1..4 :
         Includes(OrElse(<<props.ZONING, props.z_group, props.PD_NAME,
                           props.ZONINGOLD>>[i], Str(<<>>)).str,
                  ToLowerCase(f.search))

\* Search filter of applyFilters.
SearchRejects(props, f) ==
  /\ Truthy(Str(f.search))
  /\ LET searchTerm == ToLowerCase(f.search)
         searchableFields ==
           [i \in 1..4 |->
              ToLowerCase(OrElse(<<props.ZONING, props.z_group,
                                   props.PD_NAME, props.ZONINGOLD>>[i],
                                 Str(<<>>)).str)]
     IN  ~ \E i \in 1..4 : Includes(searchableFields[i], searchTerm)

\* The callback given to features.filter in applyFilters.
ApplyFiltersKeep(feature, f) ==
  LET props == feature.properties
  IN  /\ ~ GroupRejects(props, f)
      /\ ~ YearRejects(FilterYear(props), f)
      /\ ~ AreaRejects(props, f)
      /\ ~ SearchRejects(props, f)

\* The callback given to features.filter in getCurrentFilteredData.
CurrentFilteredKeep(feature, f) ==
  LET props == feature.properties
      area == OrElse(props.area_acres, Num(0))
  IN  /\ ~ (f.group # <<"A","L","L">> /\ props.z_group # Str(f.group))
      /\ ~ YearRejects(ExportYear(props), f)
      /\ ~ (area.num < f.areaMin \/ area.num > f.areaMax)
      /\ ~ ( /\ Truthy(Str(f.search))
             /\ \A i \in 1..4 :
                  ~ Includes(
                      ToLowerCase(OrElse(<<props.ZONING, props.z_group,
                                           props.PD_NAME, props.ZONINGOLD>>[i],
                                         Str(<<>>)).str),
                      ToLowerCase(f.search)) )

\* getCurrentFilteredData() with state.zoningData = zd and state.filters = f.
GetCurrentFilteredData(zd, f) ==
  IF zd = Null THEN <<>>
  ELSE SelectSeq(zd.features, LAMBDA feature : CurrentFilteredKeep(feature, f))

-----------------------------------------------------------------------------
(* Analytics aggregation *)

\* An accumulation that assigns instead of adding: obj[key] = amount.
Accumulate_Assigns(obj, key, amount) ==
  [k \in DOMAIN obj \cup {key} |-> IF k = key THEN amount ELSE obj[k]]

\* obj[key] = (obj[key] || 0) + amount
Accumulate(obj, key, amount) ==
  IF key \in DOMAIN obj
    THEN [obj EXCEPT ![key] = @ + amount]
    ELSE [k \in DOMAIN obj \cup {key} |-> IF k = key THEN amount ELSE obj[k]]

EmptyObject == [k \in {} |-> 0]

\* const group = props.z_group || "Other"
GroupKey(props) == OrElse(props.z_group, Str(<<"O","t","h","e","r">>)).str

\* const code = props.ZONING || "Unknown"
CodeKey(props) == OrElse(props.ZONING, Str(<<"U","n","k","n","o","w","n">>)).str

\* One iteration of the forEach of updateAnalyticsFromFeatures.
AggregateFeature(acc, feature) ==
  LET props == feature.properties
      area == OrElse(props.area_acres, Num(0)).num
      year == AnalyticsYear(props)
  IN  [areaByGroup |-> Accumulate(acc.areaByGroup, GroupKey(props), area),
       countsByYear |->
         IF Truthy(year) /\ year.num > 1900
           THEN Accumulate(acc.countsByYear, year.num, 1)
           ELSE acc.countsByYear,
       areaByCode |-> Accumulate(acc.areaByCode, CodeKey(props), area)]

RECURSIVE AggregateFrom(_, _, _)
AggregateFrom(features, i, acc) ==
  IF i > Len(features) THEN acc
  ELSE AggregateFrom(features, i + 1, AggregateFeature(acc, features[i]))

\* The three mappings updateAnalyticsFromFeatures hands to createAnalyticsCharts.
Aggregate(features) ==
  AggregateFrom(features, 1,
    [areaByGroup |-> EmptyObject, countsByYear |-> EmptyObject,
     areaByCode |-> EmptyObject])

NoCharts == [built |-> FALSE]

\* The chart slots of state.charts.
Slots == {"areaByGroup", "countsByYear", "areaByCode"}

\* state.charts = {}: no slot refers to a chart and no Chart instance is live.
\* ref[slot] tells whether the slot's chart is drawn on a canvas of the panel
\* in the document ("current") or of a panel that was removed ("removed");
\* live[slot] counts the instances not destroyed, by the same two kinds.
NoChartInstances ==
  [ref |-> [slot \in Slots |-> "undefined"],
   live |-> [slot \in Slots |-> [current |-> 0, removed |-> 0]]]

\* if (state.charts[slot]) state.charts[slot].destroy()
DestroyChart(ch, slot) ==
  IF ch.ref[slot] = "undefined" THEN ch
  ELSE [ch EXCEPT !.live[slot][ch.ref[slot]] = @ - 1]

\* state.charts[slot] = new Chart(ctx, ...), ctx the canvas found in the document.
NewChart(ch, slot) ==
  [ch EXCEPT !.live[slot].current = @ + 1, !.ref[slot] = "current"]

ChartInSlot(ch, slot) == NewChart(DestroyChart(ch, slot), slot)

\* createAnalyticsCharts: the three slots in turn.
CreateAnalyticsCharts(ch) ==
  ChartInSlot(ChartInSlot(ChartInSlot(ch, "areaByGroup"), "countsByYear"),
              "areaByCode")

\* state.analyticsPanel.remove(): the canvases leave the document with it.
RemovePanel(ch) ==
  [ref |-> [slot \in Slots |->
              IF ch.ref[slot] = "current" THEN "removed" ELSE ch.ref[slot]],
   live |-> [slot \in Slots |->
               [current |-> 0,
                removed |-> ch.live[slot].removed + ch.live[slot].current]]]

\* updateAnalyticsFromFeatures(features): the chart instances afterwards.
ChartsAfterUpdate(panel, features, ch) ==
  IF panel = "null" \/ Len(features) = 0 THEN ch
  ELSE CreateAnalyticsCharts(ch)

\* updateAnalyticsFromFeatures(features): what the charts are built from
\* afterwards, given the panel and what they were built from before.
UpdateAnalyticsFromFeatures(panel, features, before) ==
  IF panel = "null" \/ Len(features) = 0 THEN before
  ELSE [built |-> TRUE, data |-> Aggregate(features)]

-----------------------------------------------------------------------------
(* Inputs: feature attributes, data sets and control values *)

ALL == <<"A","L","L">>
Residential == <<"R","e","s","i","d","e","n","t","i","a","l">>
Commercial == <<"C","o","m","m","e","r","c","i","a","l">>
Agricultural == <<"A","g","r","i","c","u","l","t","u","r","a","l">>

Props(g, bcc, pz, maint, area, zoning, pd, old) ==
  [z_group |-> g, BCC_DATE |-> bcc, P_Z_DATE |-> pz, MAINT_DATE |-> maint,
   area_acres |-> area, ZONING |-> zoning, PD_NAME |-> pd, ZONINGOLD |-> old]

Feature(geom, props) == [type |-> "Feature", geometry |-> geom, properties |-> props]

\* The three features of the end-to-end scenario, and a large parcel whose
\* decision date is the epoch itself.
FeatA ==
  Feature("polyA", Props(Str(Residential), Num(EpochDayOfDate(2005, 6, 15)),
                         Undef, Undef, Num(50), Str(<<"R","-","1">>), Undef, Undef))
FeatB ==
  Feature("polyB", Props(Str(Commercial), Num(EpochDayOfDate(1999, 6, 15)),
                         Undef, Undef, Num(10), Str(<<"C","-","1">>), Undef,
                         Str(<<"R","P","D">>)))
FeatC ==
  Feature("polyC", Props(Str(Residential), Undef, Undef, Undef, Num(5),
                         Str(<<"R","-","1">>), Undef, Undef))
FeatD ==
  Feature("polyD", Props(Str(Agricultural), Num(0),
                         Num(EpochDayOfDate(2005, 1, 1)), Undef, Num(1500),
                         Str(<<"P","D">>), Str(<<"P","r","e","s","i","d","i","o">>),
                         Undef))

\* Contents of data/zoning_optimized.geojson.
Datasets == { <<>>, <<FeatA, FeatB, FeatC>>, <<FeatD, FeatA>> }

\* Values the controls are moved to.
GroupChoices == {ALL, Residential}
YearMinChoices == {1980, 2000}
YearMaxChoices == {2010, 2030}
AreaMinChoices == {0, 10}
AreaMaxChoices == {100, 1000}
SearchTexts == { <<>>, <<"R","e","s","i">>, <<"z","z","z">> }
ExportFormats == {"csv", "geojson", "json"}

-----------------------------------------------------------------------------
(* The application *)

Closed == [open |-> FALSE, fieldOptions |-> {}]

\* The delay of the search box's setTimeout, 300 ms, in steps of 100 ms.
DebounceDelay == 3

\* What `handled` records of a handler: the kind of its event ("slider",
\* "search", "timeout", "select", "close", "other", or "none" when time has
\* passed since) and whether it called applyFilters.
Handled(event, applied) == [event |-> event, applied |-> applied]
VectorSource == [type |-> "vector"]

\* The layers as loadPMTilesData and loadOptimizedGeoJSON add them: no layout
\* on the zoning layers (visible), visibility "none" on flu-fill.
AddedLayers ==
  [zoningFill |-> "visible", zoningBorder |-> "visible", fluFill |-> "none"]
Silent == [download |-> Null, notification |-> Null]
Notify(type, message) ==
  [download |-> Null, notification |-> [type |-> type, message |-> message]]

Init ==
  /\ mode = "loading"
  /\ zoningData = Null
  /\ filters = DefaultFilters
  /\ mapSource = Null
  /\ layerFilter = Undef
  /\ searchBox = <<>>
  /\ searchTimeout = 0
  /\ timeouts = {}
  /\ handled = Handled("none", FALSE)
  /\ exportModal = Closed
  /\ emitted = Silent
  /\ analyticsPanel = "null"
  /\ analytics = NoCharts
  /\ charts = NoChartInstances
  /\ layers = Null
  /\ infoPanels = <<>>
  /\ thrown = FALSE

\* applyFilters() run with state.filters = f.
ApplyFilters(f) ==
  /\ thrown' = FALSE
  /\ IF zoningData = Null
       THEN UNCHANGED <<mapSource, analytics, charts>>
       ELSE LET filteredFeatures ==
                  SelectSeq(zoningData.features,
                            LAMBDA feature : ApplyFiltersKeep(feature, f))
            IN  /\ mapSource' = IF mapSource # Null
                                  THEN FeatureCollection(filteredFeatures)
                                  ELSE mapSource
                /\ analytics' = IF analyticsPanel = "shown"
                                  THEN UpdateAnalyticsFromFeatures(
                                         analyticsPanel, filteredFeatures, analytics)
                                  ELSE analytics
                /\ charts' = IF analyticsPanel = "shown"
                               THEN ChartsAfterUpdate(
                                      analyticsPanel, filteredFeatures, charts)
                               ELSE charts

\* init(): the PMTiles probe succeeds, loadPMTilesData adds the vector source
\* and its layers, then the controls are wired.
LoadPMTiles ==
  /\ mode = "loading"
  /\ mode' = "pmtiles"
  /\ mapSource' = VectorSource
  /\ layerFilter' = Undef
  /\ emitted' = Silent
  /\ UNCHANGED <<zoningData, filters, searchBox, searchTimeout, timeouts, exportModal,
                 analyticsPanel, analytics>>
  /\ handled' = Handled("other", FALSE)
  /\ layers' = AddedLayers
  /\ UNCHANGED infoPanels
  /\ thrown' = FALSE
  /\ UNCHANGED charts

\* init(): the probe fails and loadOptimizedGeoJSON fetches both files.
LoadGeoJSON(data) ==
  /\ mode = "loading"
  /\ mode' = "geojson"
  /\ zoningData' = FeatureCollection(data)
  /\ mapSource' = FeatureCollection(data)
  /\ layerFilter' = Undef
  /\ emitted' = Silent
  /\ UNCHANGED <<filters, searchBox, searchTimeout, timeouts, exportModal, analyticsPanel,
                 analytics>>
  /\ handled' = Handled("other", FALSE)
  /\ layers' = AddedLayers
  /\ UNCHANGED infoPanels
  /\ thrown' = FALSE
  /\ UNCHANGED charts

\* A loadData whose catch block only logs the error.
LoadFailed_Unreported(partial) ==
  /\ mode = "loading"
  /\ mode' = "failed"
  /\ zoningData' = partial
  /\ emitted' = Silent
  /\ handled' = Handled("other", FALSE)
  /\ thrown' = FALSE
  /\ UNCHANGED <<filters, mapSource, layerFilter, searchBox, searchTimeout,
                 timeouts, exportModal, analyticsPanel, analytics, charts, layers, infoPanels>>

\* init(): loadOptimizedGeoJSON throws (a fetch fails, a response is not ok or
\* a body does not parse); partial is what state.zoningData holds by then.
LoadFailed(partial) ==
  /\ mode = "loading"
  /\ mode' = "failed"
  /\ zoningData' = partial
  /\ emitted' = Notify("error", "Failed to load data. Please refresh the page.")
  /\ UNCHANGED <<filters, mapSource, layerFilter, searchBox, searchTimeout, timeouts,
                 exportModal, analyticsPanel, analytics>>
  /\ handled' = Handled("other", FALSE)
  /\ thrown' = FALSE
  /\ UNCHANGED <<charts, layers, infoPanels>>

Wired == mode # "loading"

\* A change or input event of a filter control that sets one parameter; the
\* control fires it when its value has changed.
SetFilter(f) ==
  /\ Wired
  /\ f # filters
  /\ filters' = f
  /\ ApplyFilters(f)
  /\ emitted' = Silent
  /\ UNCHANGED <<mode, zoningData, layerFilter, searchBox, searchTimeout,
                 timeouts, exportModal, analyticsPanel>>
  /\ UNCHANGED <<layers, infoPanels>>

GroupChange(value) ==
  /\ SetFilter([filters EXCEPT !.group = value])
  /\ handled' = Handled("other", TRUE)

YearMinInput(value) ==
  /\ SetFilter([filters EXCEPT !.yearMin = value])
  /\ handled' = Handled("slider", TRUE)

YearMaxInput(value) ==
  /\ SetFilter([filters EXCEPT !.yearMax = value])
  /\ handled' = Handled("slider", TRUE)

AreaMinInput(value) ==
  /\ SetFilter([filters EXCEPT !.areaMin = value])
  /\ handled' = Handled("slider", TRUE)

AreaMaxInput(value) ==
  /\ SetFilter([filters EXCEPT !.areaMax = value])
  /\ handled' = Handled("slider", TRUE)

\* clearTimeout(id): the pending call of that id, if any, is dropped.
ClearTimeout(pending, id) == {call \in pending : call.id # id}

\* The id setTimeout returns: one that no pending call has.
NewTimerId(pending) ==
  CHOOSE i \in 1..(Cardinality(pending) + 1) :
    /\ \A call \in pending : call.id # i
    /\ \A j \in 1..(i - 1) : \E call \in pending : call.id = j

\* A search box handler that schedules its call without clearTimeout.
SearchInput_NoClear(text) ==
  /\ Wired
  /\ text # searchBox
  /\ searchBox' = text
  /\ searchTimeout' = NewTimerId(timeouts)
  /\ timeouts' = timeouts \cup {[id |-> searchTimeout', left |-> DebounceDelay]}
  /\ handled' = Handled("search", FALSE)
  /\ emitted' = Silent
  /\ UNCHANGED <<mode, zoningData, filters, mapSource, layerFilter, exportModal,
                 analyticsPanel, analytics>>
  /\ thrown' = FALSE
  /\ UNCHANGED <<charts, layers, infoPanels>>

\* input event of the search box: clearTimeout(searchTimeout), then
\* searchTimeout = setTimeout(callback, 300).
SearchInput(text) ==
  /\ Wired
  /\ text # searchBox
  /\ searchBox' = text
  /\ LET pending == ClearTimeout(timeouts, searchTimeout)
         id == NewTimerId(pending)
     IN  /\ searchTimeout' = id
         /\ timeouts' = pending \cup {[id |-> id, left |-> DebounceDelay]}
  /\ handled' = Handled("search", FALSE)
  /\ emitted' = Silent
  /\ UNCHANGED <<mode, zoningData, filters, mapSource, layerFilter, exportModal,
                 analyticsPanel, analytics>>
  /\ thrown' = FALSE
  /\ UNCHANGED <<charts, layers, infoPanels>>

\* The timeout callback of a call that is due: e.target.value is read when
\* it runs.
SearchTimerFires ==
  \E call \in timeouts :
    /\ call.left = 0
    /\ timeouts' = timeouts \ {call}
    /\ filters' = [filters EXCEPT !.search = searchBox]
    /\ ApplyFilters(filters')
    /\ handled' = Handled("timeout", TRUE)
    /\ emitted' = Silent
    /\ UNCHANGED <<mode, zoningData, layerFilter, searchBox, searchTimeout,
                   exportModal, analyticsPanel>>
    /\ UNCHANGED <<layers, infoPanels>>

\* 100 ms pass with no event: every pending call comes closer to its time.  A
\* call that is due runs before more time passes.
Tick ==
  /\ \A call \in timeouts : call.left > 0
  /\ timeouts' = {[call EXCEPT !.left = @ - 1] : call \in timeouts}
  /\ handled' = Handled("none", FALSE)
  /\ UNCHANGED <<mode, zoningData, filters, mapSource, layerFilter, searchBox,
                 searchTimeout, exportModal, emitted, analyticsPanel, analytics>>
  /\ UNCHANGED <<charts, layers, thrown, infoPanels>>

\* Object.keys(sampleFeature.properties)
Keys(props) == {k \in DOMAIN props : props[k] # Undef}

\* const defaultFields = [...] of populateFieldOptions: the boxes checked at first.
DefaultFields ==
  {"ZONING", "z_group", "area_acres", "PD_NAME", "BCC_DATE", "centroid_lat",
   "centroid_lon"}

\* Selections of check boxes the user may leave before pressing Export Data.
FieldSelections(options) == { {}, options \cap DefaultFields, options }

\* exportFilteredData(): click on #exportBtn.  The dialog covers the page, so
\* the button is clicked only while no dialog is open.
ExportClick ==
  /\ Wired
  /\ exportModal = Closed
  /\ IF zoningData = Null
       THEN /\ emitted' = Notify("error", "No data available to export")
            /\ UNCHANGED exportModal
       ELSE LET filteredData == GetCurrentFilteredData(zoningData, filters)
            IN  IF Len(filteredData) = 0
                  THEN /\ emitted' = Notify("error", "No data matches current filters")
                       /\ UNCHANGED exportModal
                  ELSE /\ exportModal' =
                            [open |-> TRUE,
                             fieldOptions |-> Keys(filteredData[1].properties)]
                       /\ emitted' = Silent
  /\ UNCHANGED <<mode, zoningData, filters, mapSource, layerFilter, searchBox,
                 searchTimeout, timeouts, analyticsPanel, analytics>>
  /\ handled' = Handled("other", FALSE)
  /\ thrown' = FALSE
  /\ UNCHANGED <<charts, layers, infoPanels>>

\* The file handed to downloadFile by exportToCSV, exportToGeoJSON or exportToJSON.
ExportFile(format, data, fields) ==
  [format |-> format, fields |-> fields, features |-> data]

\* An executeExport without the check of selectedFields.length.
ExecuteExport_NoFieldCheck(format, selectedFields) ==
  /\ exportModal.open
  /\ selectedFields \subseteq exportModal.fieldOptions
  /\ LET filteredData == GetCurrentFilteredData(zoningData, filters)
     IN  /\ emitted' =
              [download |-> ExportFile(format, filteredData, selectedFields),
               notification |->
                 [type |-> "info", message |-> "Successfully exported",
                  count |-> Len(filteredData), format |-> format]]
         /\ exportModal' = Closed
  /\ UNCHANGED <<mode, zoningData, filters, mapSource, layerFilter, searchBox,
                 searchTimeout, timeouts, analyticsPanel, analytics>>
  /\ handled' = Handled("other", FALSE)
  /\ thrown' = FALSE
  /\ UNCHANGED <<charts, layers, infoPanels>>

\* executeExport(): click on the dialog's Export Data button.
ExecuteExport(format, selectedFields) ==
  /\ exportModal.open
  /\ selectedFields \subseteq exportModal.fieldOptions
  /\ IF selectedFields = {}
       THEN /\ emitted' = Notify("error", "Please select at least one field to export")
            /\ UNCHANGED exportModal
       ELSE LET filteredData == GetCurrentFilteredData(zoningData, filters)
            IN  /\ emitted' =
                     [download |-> ExportFile(format, filteredData, selectedFields),
                      notification |->
                        [type |-> "info", message |-> "Successfully exported",
                         count |-> Len(filteredData), format |-> format]]
                /\ exportModal' = Closed
  /\ UNCHANGED <<mode, zoningData, filters, mapSource, layerFilter, searchBox,
                 searchTimeout, timeouts, analyticsPanel, analytics>>
  /\ handled' = Handled("other", FALSE)
  /\ thrown' = FALSE
  /\ UNCHANGED <<charts, layers, infoPanels>>

\* The dialog's close button, its Cancel button or a click outside it.
CloseExportModal ==
  /\ exportModal # Closed
  /\ exportModal' = Closed
  /\ emitted' = Silent
  /\ UNCHANGED <<mode, zoningData, filters, mapSource, layerFilter, searchBox,
                 searchTimeout, timeouts, analyticsPanel, analytics>>
  /\ handled' = Handled("other", FALSE)
  /\ thrown' = FALSE
  /\ UNCHANGED <<charts, layers, infoPanels>>

Next ==
  \/ LoadPMTiles
  \/ \E data \in Datasets : LoadGeoJSON(data)
  \/ \E partial \in {Null} \cup {FeatureCollection(d) : d \in Datasets} :
       LoadFailed(partial)
  \/ \E value \in GroupChoices : GroupChange(value)
  \/ \E value \in YearMinChoices : YearMinInput(value)
  \/ \E value \in YearMaxChoices : YearMaxInput(value)
  \/ \E value \in AreaMinChoices : AreaMinInput(value)
  \/ \E value \in AreaMaxChoices : AreaMaxInput(value)
  \/ \E text \in SearchTexts : SearchInput(text)
  \/ SearchTimerFires
  \/ Tick
  \/ ExportClick
  \/ \E format \in ExportFormats :
       \E selectedFields \in FieldSelections(exportModal.fieldOptions) :
         ExecuteExport(format, selectedFields)
  \/ CloseExportModal

Spec == Init /\ [][Next]_vars

-----------------------------------------------------------------------------
(* The filter as a function of one feature and one configuration.            *)
(* FilterSpec starts where the user has set the group and the sliders (so    *)
(* the map holds the feature or not, as that configuration decides) and has  *)
(* typed into the search box; its one step is the timeout callback, which    *)
(* runs applyFilters with all four parameters set.                           *)

GroupValues == {Undef, Str(Residential), Str(Commercial)}
BccValues ==
  {Undef, Num(0), Num(EpochDayOfDate(2005, 6, 15)),
   Str(<<"1","8","5","0","-","0","6","-","0","1">>), Str(<<"n","/","a">>)}
PzValues == {Undef, Num(EpochDayOfDate(1999, 6, 15))}
MaintValues == {Undef, Str(<<"2","0","1","2","-","0","5","-","0","1">>)}
AreaValues == {Undef, Num(10), Num(1500)}
ZoningValues == {Undef, Str(<<"P","D">>)}
PdNameValues == {Undef, Str(<<"P","r","e","s","i","d","i","o">>)}
ZoningOldValues == {Undef, Str(<<"R","P","D">>)}

FeatureSpace ==
  {Feature("poly", Props(g, bcc, pz, maint, area, zoning, pd, old)) :
     g \in GroupValues, bcc \in BccValues, pz \in PzValues,
     maint \in MaintValues, area \in AreaValues, zoning \in ZoningValues,
     pd \in PdNameValues, old \in ZoningOldValues}

SearchSpace == { <<>>, <<"R","e","s","i">>, <<"p","d">> }

FilterSpace ==
  [group : {ALL, Residential}, yearMin : {1980, 2000},
   yearMax : {1990, 2010, 2030}, areaMin : {0, 10}, areaMax : {10, 1000},
   search : { <<>> }, showZoning : {TRUE}, showFLU : {FALSE}]

FilterInit ==
  \E feature \in FeatureSpace, f \in FilterSpace, text \in SearchSpace :
    /\ mode = "geojson"
    /\ zoningData = FeatureCollection(<<feature>>)
    /\ filters = f
    /\ mapSource =
         FeatureCollection(SelectSeq(<<feature>>,
                                     LAMBDA x : ApplyFiltersKeep(x, f)))
    /\ layerFilter = Undef
    /\ searchBox = text
    /\ searchTimeout = 1
    /\ timeouts = {[id |-> 1, left |-> 0]}
    /\ handled = Handled("none", FALSE)
    /\ exportModal = Closed
    /\ emitted = Silent
    /\ analyticsPanel = "null"
    /\ analytics = NoCharts
    /\ charts = NoChartInstances
    /\ layers = AddedLayers
    /\ infoPanels = <<>>
    /\ thrown = FALSE

FilterNext == SearchTimerFires

FilterSpec == FilterInit /\ [][FilterNext]_vars

-----------------------------------------------------------------------------
(* The aggregator as a function of its input sequence.  AggSpec starts at    *)
(* the call of updateAnalyticsFromFeatures in createAnalyticsPanel, the      *)
(* panel just created and no chart built, with the whole of zoningData as    *)
(* the sequence handed over.                                                 *)

MaxFeatures == 2

AggFeatures ==
  {Feature("poly", Props(g, bcc, Undef, Undef, area, zoning, Undef, Undef)) :
     g \in {Undef, Str(Residential)},
     bcc \in {Undef, Num(0), Num(EpochDayOfDate(2005, 6, 15)),
              Str(<<"1","8","5","0","-","0","6","-","0","1">>)},
     area \in {Undef, Num(5), Num(50)},
     zoning \in ZoningValues}

AggInputs == UNION {[1..n -> AggFeatures] : n \in 0..MaxFeatures}

AggInit ==
  \E features \in AggInputs :
    /\ mode = "geojson"
    /\ zoningData = FeatureCollection(features)
    /\ filters = DefaultFilters
    /\ mapSource = FeatureCollection(features)
    /\ layerFilter = Undef
    /\ searchBox = <<>>
    /\ searchTimeout = 0
    /\ timeouts = {}
    /\ handled = Handled("none", FALSE)
    /\ exportModal = Closed
    /\ emitted = Silent
    /\ analyticsPanel = "shown"
    /\ analytics = NoCharts
    /\ charts = NoChartInstances
    /\ layers = AddedLayers
    /\ infoPanels = <<>>
    /\ thrown = FALSE

\* updateAnalyticsFromFeatures(features) for the sequence held in zoningData.
UpdateAnalytics ==
  /\ analytics' =
       UpdateAnalyticsFromFeatures(analyticsPanel, zoningData.features, analytics)
  /\ UNCHANGED <<mode, zoningData, filters, mapSource, layerFilter, searchBox,
                 searchTimeout, timeouts, handled, exportModal, emitted,
                 analyticsPanel>>
  /\ charts' = ChartsAfterUpdate(analyticsPanel, zoningData.features, charts)
  /\ UNCHANGED <<layers, thrown, infoPanels>>

AggNext == UpdateAnalytics

AggSpec == AggInit /\ [][AggNext]_vars

-----------------------------------------------------------------------------
(* The analytics panel.  PanelSpec is the application with the GeoJSON load, *)
(* the category select, the search box and the two controls of the panel:    *)
(* the Analytics button and the panel's close button.                        *)

\* createAnalyticsPanel(): the old panel, if any, is removed, a new one is put
\* in the document and the charts are built from the current filtered data.
CreateAnalyticsPanel ==
  LET filteredData == GetCurrentFilteredData(zoningData, filters)
      detached == IF analyticsPanel # "null" THEN RemovePanel(charts) ELSE charts
  IN  /\ analyticsPanel' = "shown"
      /\ analytics' = UpdateAnalyticsFromFeatures("shown", filteredData, analytics)
      /\ charts' = ChartsAfterUpdate("shown", filteredData, detached)

\* toggleAnalyticsPanel(): click on #analyticsBtn.
ToggleAnalyticsPanel ==
  /\ Wired
  /\ IF analyticsPanel = "shown"
       THEN /\ analyticsPanel' = "hidden"
            /\ UNCHANGED <<analytics, charts>>
       ELSE CreateAnalyticsPanel
  /\ handled' = Handled("other", FALSE)
  /\ emitted' = Silent
  /\ thrown' = FALSE
  /\ UNCHANGED <<mode, zoningData, filters, mapSource, layerFilter, searchBox,
                 searchTimeout, timeouts, exportModal, layers, infoPanels>>

\* closeBtn.onclick: the close button of a panel that is on screen.
CloseAnalyticsPanel ==
  /\ analyticsPanel = "shown"
  /\ analyticsPanel' = "hidden"
  /\ handled' = Handled("other", FALSE)
  /\ emitted' = Silent
  /\ thrown' = FALSE
  /\ UNCHANGED <<mode, zoningData, filters, mapSource, layerFilter, searchBox,
                 searchTimeout, timeouts, exportModal, analytics, charts, layers, infoPanels>>

PanelNext ==
  \/ \E data \in Datasets : LoadGeoJSON(data)
  \/ \E value \in GroupChoices : GroupChange(value)
  \/ \E text \in SearchTexts : SearchInput(text)
  \/ SearchTimerFires
  \/ Tick
  \/ ToggleAnalyticsPanel
  \/ CloseAnalyticsPanel

PanelSpec == Init /\ [][PanelNext]_vars

-----------------------------------------------------------------------------
(* The layer toggles.  LayerSpec is the application with the three outcomes  *)
(* of the load, the two visibility check boxes, the category select and the  *)
(* area-max slider.                                                          *)

\* const visibility = flag ? "visible" : "none"
Visibility(flag) == IF flag THEN "visible" ELSE "none"

\* A zoning toggle that restyles zoning-fill and leaves zoning-border alone.
ToggleZoning_FillOnly(checked) ==
  /\ Wired
  /\ filters' = [filters EXCEPT !.showZoning = checked]
  /\ UNCHANGED infoPanels
  /\ layers' = IF layers = Null THEN layers
               ELSE [layers EXCEPT !.zoningFill = Visibility(checked)]
  /\ handled' = Handled("other", FALSE)
  /\ emitted' = Silent
  /\ thrown' = FALSE
  /\ UNCHANGED <<mode, zoningData, mapSource, layerFilter, searchBox,
                 searchTimeout, timeouts, exportModal, analyticsPanel,
                 analytics, charts>>

\* change event of #toggleZoning.  setLayoutProperty on a layer the map does
\* not have reports an error event and changes nothing.
ToggleZoning(checked) ==
  /\ Wired
  /\ filters' = [filters EXCEPT !.showZoning = checked]
  /\ UNCHANGED infoPanels
  /\ layers' = IF layers = Null THEN layers
               ELSE [layers EXCEPT !.zoningFill = Visibility(checked),
                                   !.zoningBorder = Visibility(checked)]
  /\ handled' = Handled("other", FALSE)
  /\ emitted' = Silent
  /\ thrown' = FALSE
  /\ UNCHANGED <<mode, zoningData, mapSource, layerFilter, searchBox,
                 searchTimeout, timeouts, exportModal, analyticsPanel,
                 analytics, charts>>

\* change event of #toggleFLU.
ToggleFLU(checked) ==
  /\ Wired
  /\ filters' = [filters EXCEPT !.showFLU = checked]
  /\ UNCHANGED infoPanels
  /\ layers' = IF layers = Null THEN layers
               ELSE [layers EXCEPT !.fluFill = Visibility(checked)]
  /\ handled' = Handled("other", FALSE)
  /\ emitted' = Silent
  /\ thrown' = FALSE
  /\ UNCHANGED <<mode, zoningData, mapSource, layerFilter, searchBox,
                 searchTimeout, timeouts, exportModal, analyticsPanel,
                 analytics, charts>>

LayerNext ==
  \/ LoadPMTiles
  \/ \E data \in Datasets : LoadGeoJSON(data)
  \/ \E partial \in {Null} \cup {FeatureCollection(d) : d \in Datasets} :
       LoadFailed(partial)
  \/ \E checked \in BOOLEAN : ToggleZoning(checked)
  \/ \E checked \in BOOLEAN : ToggleFLU(checked)
  \/ \E value \in GroupChoices : GroupChange(value)
  \/ \E value \in AreaMaxChoices : AreaMaxInput(value)

LayerSpec == Init /\ [][LayerNext]_vars

-----------------------------------------------------------------------------
(* The export writers as functions of the features and the selected fields.  *)
(* The fields are the checked boxes in document order, a sequence of names.  *)
(* A document written by JSON.stringify is carried as the value a JSON       *)
(* reader gets back from it.  ExportSpec starts at the open dialog over a    *)
(* filtered set drawn from ExportFeatures; its one step is a click on Export *)
(* Data with some fields checked.                                            *)

\* props[field]: undefined when the object has no such key.
GetField(props, field) == IF field \in DOMAIN props THEN props[field] ELSE Undef

\* An entries list that takes every property, selected or not.
FromEntries_Everything(fields, props) == props

\* Object.fromEntries(fields.map((field) => [field, feature.properties[field]]))
FromEntries(fields, props) ==
  [field \in {fields[i] : i \in 1..Len(fields)} |-> GetField(props, field)]

\* JSON.stringify of an object: a member whose value is undefined is left out.
StringifyObject(obj) ==
  [key \in {k \in DOMAIN obj : obj[k] # Undef} |-> obj[key]]

\* exportToGeoJSON: the FeatureCollection handed to JSON.stringify.  The
\* geometry member of a feature that has none is undefined and left out.
ExportToGeoJSON(data, fields) ==
  [type |-> "FeatureCollection",
   features |->
     [i \in 1..Len(data) |->
        LET properties == StringifyObject(FromEntries(fields, data[i].properties))
        IN  IF "geometry" \in DOMAIN data[i]
              THEN [type |-> "Feature", geometry |-> data[i].geometry,
                    properties |-> properties]
              ELSE [type |-> "Feature", properties |-> properties]]]

\* exportToJSON: {...feature, properties: ...} for each feature.
ExportToJSON(data, fields) ==
  [i \in 1..Len(data) |->
     [key \in DOMAIN data[i] \cup {"properties"} |->
        IF key = "properties"
          THEN StringifyObject(FromEntries(fields, data[i].properties))
          ELSE data[i][key]]]

\* String(n) for a number n >= 0 without fraction.
RECURSIVE DigitsOf(_)
DigitsOf(n) ==
  LET digit == <<"0","1","2","3","4","5","6","7","8","9">>[(n % 10) + 1]
  IN  IF n < 10 THEN <<digit>> ELSE DigitsOf(n \div 10) \o <<digit>>

\* String(value) for the values a cell can hold.
StringOf(value) == IF value.t = "number" THEN DigitsOf(value.num) ELSE value.str

\* text.replace(/"/g, '""')
RECURSIVE DoubleQuotes(_)
DoubleQuotes(text) ==
  IF text = <<>> THEN <<>>
  ELSE (IF Head(text) = "\"" THEN <<"\"", "\"">> ELSE <<Head(text)>>)
         \o DoubleQuotes(Tail(text))

\* One cell of exportToCSV.
CsvCell(value) ==
  IF value = Null \/ value = Undef THEN <<>>
  ELSE LET escaped == DoubleQuotes(StringOf(value))
       IN  IF Includes(escaped, <<",">>)
             THEN <<"\"">> \o escaped \o <<"\"">>
             ELSE escaped

\* texts.join(separator)
RECURSIVE Join(_, _)
Join(texts, separator) ==
  IF texts = <<>> THEN <<>>
  ELSE IF Len(texts) = 1 THEN texts[1]
  ELSE texts[1] \o separator \o Join(Tail(texts), separator)

\* The characters of the field names of the export inputs.
FieldText ==
  [ZONING |-> <<"Z","O","N","I","N","G">>,
   area_acres |-> <<"a","r","e","a","_","a","c","r","e","s">>]

\* exportToCSV: csvContent.
ExportToCSV(data, fields) ==
  LET header == Join([i \in 1..Len(fields) |-> FieldText[fields[i]]], <<",">>)
      rows == [r \in 1..Len(data) |->
                 Join([i \in 1..Len(fields) |->
                         CsvCell(GetField(data[r].properties, fields[i]))],
                      <<",">>)]
  IN  Join(<<header>> \o rows, <<"\n">>)

\* The content executeExport hands to downloadFile for a format.
ExportContent(format, data, fields) ==
  CASE format = "csv" -> ExportToCSV(data, fields)
    [] format = "geojson" -> ExportToGeoJSON(data, fields)
    [] format = "json" -> ExportToJSON(data, fields)

\* The values of ZONING in the export inputs: absent, plain, with a comma,
\* with a double quote, with a line break, with a comma and a double quote.
ExportZoningValues ==
  {Undef, Str(<<"R">>), Str(<<"a", ",", "b">>), Str(<<"q", "\"">>),
   Str(<<"x", "\n", "y">>), Str(<<"a", ",", "\"", "b">>)}

ExportAreaValues == {Null, Num(12)}

\* Features as the data file holds them, with and without an id member.
ExportFeatures ==
  {[type |-> "Feature", geometry |-> "poly",
    properties |-> [ZONING |-> zoning, area_acres |-> area]] :
     zoning \in ExportZoningValues, area \in ExportAreaValues}
  \cup
  {[type |-> "Feature", id |-> 7, geometry |-> "poly",
    properties |-> [ZONING |-> zoning, area_acres |-> area]] :
     zoning \in ExportZoningValues, area \in ExportAreaValues}

ExportInputs == UNION {[1..n -> ExportFeatures] : n \in 0..MaxFeatures}

\* The checked boxes, in document order.
ExportFieldChoices ==
  {<<"ZONING">>, <<"ZONING", "area_acres">>, <<"area_acres", "ZONING">>}

ExportInit ==
  \E data \in ExportInputs :
    /\ mode = "geojson"
    /\ zoningData = FeatureCollection(data)
    /\ filters = DefaultFilters
    /\ mapSource = FeatureCollection(data)
    /\ layerFilter = Undef
    /\ searchBox = <<>>
    /\ searchTimeout = 0
    /\ timeouts = {}
    /\ handled = Handled("none", FALSE)
    /\ exportModal = [open |-> TRUE, fieldOptions |-> {"ZONING", "area_acres"}]
    /\ emitted = Silent
    /\ analyticsPanel = "null"
    /\ analytics = NoCharts
    /\ charts = NoChartInstances
    /\ layers = AddedLayers
    /\ infoPanels = <<>>
    /\ thrown = FALSE

\* executeExport() over the features held in zoningData, with the writers'
\* output as the download.
WriteExport(format, fields) ==
  /\ exportModal.open
  /\ emitted' =
       [download |->
          [format |-> format, fields |-> fields,
           content |-> ExportContent(format, zoningData.features, fields)],
        notification |->
          [type |-> "info", message |-> "Successfully exported",
           count |-> Len(zoningData.features), format |-> format]]
  /\ exportModal' = Closed
  /\ handled' = Handled("other", FALSE)
  /\ thrown' = FALSE
  /\ UNCHANGED <<mode, zoningData, filters, mapSource, layerFilter, searchBox,
                 searchTimeout, timeouts, analyticsPanel, analytics, charts,
                 layers, infoPanels>>

ExportNext ==
  \E format \in ExportFormats, fields \in ExportFieldChoices :
    WriteExport(format, fields)

ExportSpec == ExportInit /\ [][ExportNext]_vars

-----------------------------------------------------------------------------
(* The zoning information panel: selectFeature and its close button *)

Dash == Str(<<"-">>)

\* The rows of the panel's content: the code and the category always, every
\* other row only for a truthy property.
PanelRows(props) ==
  {"Zoning Code", "Category"}
    \cup (IF Truthy(GetField(props, "PD_NAME")) THEN {"PD Name"} ELSE {})
    \cup (IF Truthy(GetField(props, "ZONINGOLD")) THEN {"Previous Zoning"} ELSE {})
    \cup (IF Truthy(GetField(props, "area_acres")) THEN {"Area"} ELSE {})
    \cup (IF Truthy(GetField(props, "BCC_DATE")) THEN {"BCC Date"} ELSE {})
    \cup (IF Truthy(GetField(props, "P_Z_DATE")) THEN {"Proposed Date"} ELSE {})
    \cup (IF Truthy(GetField(props, "MAINT_DATE")) THEN {"Maintenance Date"} ELSE {})
    \cup (IF /\ Truthy(GetField(props, "centroid_lat"))
             /\ Truthy(GetField(props, "centroid_lon"))
            THEN {"Centroid"} ELSE {})

\* props.centroid_lat.toFixed(4) and props.centroid_lon.toFixed(4) are
\* evaluated when both are truthy; only a number has toFixed.
ContentThrows(props) ==
  /\ Truthy(GetField(props, "centroid_lat"))
  /\ Truthy(GetField(props, "centroid_lon"))
  /\ \/ GetField(props, "centroid_lat").t # "number"
     \/ GetField(props, "centroid_lon").t # "number"

\* The div with data-panel="zoning-info" that selectFeature builds.
InfoPanel(feature) ==
  [panel |-> "zoning-info", feature |-> feature,
   zoning |-> OrElse(GetField(feature.properties, "ZONING"), Dash),
   category |-> OrElse(GetField(feature.properties, "z_group"), Dash),
   rows |-> PanelRows(feature.properties)]

\* document.querySelector('[data-panel="zoning-info"]') followed by remove():
\* the first such element in document order leaves the document.
RemoveExisting(panels) == IF panels = <<>> THEN panels ELSE Tail(panels)

\* A parcel of the tile set that carries its centroid.
FeatE ==
  Feature("polyE", [z_group |-> Str(Commercial), BCC_DATE |-> Undef,
                    P_Z_DATE |-> Undef, MAINT_DATE |-> Undef,
                    area_acres |-> Num(0), ZONING |-> Undef, PD_NAME |-> Undef,
                    ZONINGOLD |-> Undef, centroid_lat |-> Num(28),
                    centroid_lon |-> Num(-81)])

\* Contents of data/zoning.pmtiles.
TileFeatures == {FeatA, FeatD, FeatE}

\* The features a click on the zoning-fill layer can hit: those the layer
\* draws, none while the layer is absent or hidden.
Clickable ==
  IF layers = Null \/ layers.zoningFill # "visible" THEN {}
  ELSE IF mode = "pmtiles" THEN TileFeatures
  ELSE IF mode = "geojson" THEN {mapSource.features[i] :
                                   i \in 1..Len(mapSource.features)}
  ELSE {}

\* A selectFeature that appends its panel without looking for an existing one.
SelectFeature_KeepsExisting(feature) ==
  /\ feature \in Clickable
  /\ infoPanels' = Append(infoPanels, InfoPanel(feature))
  /\ thrown' = FALSE
  /\ handled' = Handled("select", FALSE)
  /\ emitted' = Silent
  /\ UNCHANGED <<mode, zoningData, filters, mapSource, layerFilter, searchBox,
                 searchTimeout, timeouts, exportModal, analyticsPanel,
                 analytics, charts, layers>>

\* A click on a feature of the zoning-fill layer: selectFeature(e.features[0]).
SelectFeature(feature) ==
  /\ feature \in Clickable
  /\ infoPanels' = IF ContentThrows(feature.properties)
                     THEN RemoveExisting(infoPanels)
                     ELSE Append(RemoveExisting(infoPanels), InfoPanel(feature))
  /\ thrown' = ContentThrows(feature.properties)
  /\ handled' = Handled("select", FALSE)
  /\ emitted' = Silent
  /\ UNCHANGED <<mode, zoningData, filters, mapSource, layerFilter, searchBox,
                 searchTimeout, timeouts, exportModal, analyticsPanel,
                 analytics, charts, layers>>

\* A click on the close button of a panel in the document: infoPanel.remove().
CloseInfoPanel ==
  \E i \in 1..Len(infoPanels) :
    /\ infoPanels' = [k \in 1..(Len(infoPanels) - 1) |->
                        IF k < i THEN infoPanels[k] ELSE infoPanels[k + 1]]
    /\ thrown' = FALSE
    /\ handled' = Handled("close", FALSE)
    /\ emitted' = Silent
    /\ UNCHANGED <<mode, zoningData, filters, mapSource, layerFilter, searchBox,
                   searchTimeout, timeouts, exportModal, analyticsPanel,
                   analytics, charts, layers>>

InfoNext ==
  \/ LoadPMTiles
  \/ \E data \in Datasets : LoadGeoJSON(data)
  \/ \E feature \in TileFeatures \cup {FeatB, FeatC} : SelectFeature(feature)
  \/ CloseInfoPanel
  \/ \E value \in GroupChoices : GroupChange(value)
  \/ \E value \in AreaMaxChoices : AreaMaxInput(value)
  \/ \E checked \in BOOLEAN : ToggleZoning(checked)

InfoSpec == Init /\ [][InfoNext]_vars

-----------------------------------------------------------------------------
(* The statements of the specification, written independently of the code   *)

Present(x) == x.t \notin {"undefined", "null"}

\* The first present date attribute in the order BCC_DATE, P_Z_DATE, MAINT_DATE.
FirstPresentDate(props) ==
  IF Present(props.BCC_DATE) THEN props.BCC_DATE
  ELSE IF Present(props.P_Z_DATE) THEN props.P_Z_DATE
  ELSE IF Present(props.MAINT_DATE) THEN props.MAINT_DATE
  ELSE Undef

\* Year of the first present date attribute: a number, NaN, or Null when none is present.
FirstPresentYear(props) ==
  IF Present(FirstPresentDate(props)) THEN GetFullYear(FirstPresentDate(props))
  ELSE Null

\* Effective year: absent (Null) when nothing parses or the year is 1900 or earlier.
EffectiveYear(props) ==
  LET y == FirstPresentYear(props)
  IN  IF y.t = "number" /\ y.num > 1900 THEN y ELSE Null

NoParseableDate(props) ==
  \A x \in {props.BCC_DATE, props.P_Z_DATE, props.MAINT_DATE} :
    DateValue(x).t # "number"

CategoryPasses(props, c) == c.group = ALL \/ props.z_group = Str(c.group)

YearPasses(props, c) ==
  \/ EffectiveYear(props) = Null
  \/ (c.yearMin <= EffectiveYear(props).num /\ EffectiveYear(props).num <= c.yearMax)

AreaOf(props) == IF props.area_acres.t = "number" THEN props.area_acres.num ELSE 0

AreaPasses(props, c) == c.areaMin <= AreaOf(props) /\ AreaOf(props) <= c.areaMax

TextOf(x) == IF x.t = "string" THEN x.str ELSE <<>>

SearchPasses(props, c) ==
  \/ c.search = <<>>
  \/ \E x \in {props.ZONING, props.z_group, props.PD_NAME, props.ZONINGOLD} :
       Includes(ToLowerCase(TextOf(x)), ToLowerCase(c.search))

Include(feature, c) ==
  /\ CategoryPasses(feature.properties, c)
  /\ YearPasses(feature.properties, c)
  /\ AreaPasses(feature.properties, c)
  /\ SearchPasses(feature.properties, c)

Range(seq) == {seq[i] : i \in 1..Len(seq)}

\* The features the map shows and those an export would write.
OnMap(feature) == feature \in Range(mapSource.features)
InExport(feature) == feature \in Range(GetCurrentFilteredData(zoningData, filters))

\* The filter has been applied with the configuration of the current state.
Filtered == mode = "geojson" /\ timeouts = {}

-----------------------------------------------------------------------------
(* Claims *)

\* C1: a feature is kept by the in-memory filter (map and export alike) if and
\* only if the category, year, area and search predicates all hold, the year
\* being the effective year of the specification.
C1_IncludeIffAllFour ==
  Filtered =>
    \A feature \in Range(zoningData.features) :
      /\ OnMap(feature) <=> Include(feature, filters)
      /\ InExport(feature) <=> Include(feature, filters)

\* C2: a feature none of whose date fields parses passes the year filter for
\* every year range, inverted ranges included: the other three predicates
\* alone decide whether it is kept.
C2_NoParseableDatePassesYear ==
  Filtered =>
    \A feature \in Range(zoningData.features) :
      NoParseableDate(feature.properties) =>
        LET others == /\ CategoryPasses(feature.properties, filters)
                      /\ AreaPasses(feature.properties, filters)
                      /\ SearchPasses(feature.properties, filters)
        IN  /\ OnMap(feature) <=> others
            /\ InExport(feature) <=> others

C2_Witness ==
  /\ Filtered
  /\ filters.yearMin > filters.yearMax
  /\ \E feature \in Range(mapSource.features) :
       /\ NoParseableDate(feature.properties)
       /\ feature.properties.BCC_DATE = Str(<<"n","/","a">>)
       /\ InExport(feature)

\* C3: a feature whose date resolves to a year of 1900 or earlier is never
\* excluded by the year filter and is not counted by the aggregator.
C3_YearAtMost1900IsAbsent ==
  Filtered =>
    \A feature \in Range(zoningData.features) :
      LET props == feature.properties
          y == FirstPresentYear(props)
      IN  (y.t = "number" /\ y.num <= 1900) =>
            /\ ( /\ CategoryPasses(props, filters)
                 /\ AreaPasses(props, filters)
                 /\ SearchPasses(props, filters) ) => OnMap(feature)
            /\ Aggregate(<<feature>>).countsByYear = EmptyObject

\* C4: the year the filter, the export filter and the aggregator derive is the
\* year of the first present date field in the order BCC_DATE, P_Z_DATE,
\* MAINT_DATE; a present field, an epoch value of 0 included, is never skipped.
C4_FirstPresentFieldDecides ==
  Filtered =>
    \A feature \in Range(zoningData.features) :
      /\ FilterYear(feature.properties) = FirstPresentYear(feature.properties)
      /\ ExportYear(feature.properties) = FirstPresentYear(feature.properties)
      /\ AnalyticsYear(feature.properties) = FirstPresentYear(feature.properties)

\* C5: among the features the group, year and area filters let through, a
\* feature is kept if and only if the search string is empty or its lower-cased
\* form is contained in the lower-cased ZONING, z_group, PD_NAME or ZONINGOLD,
\* an absent field counting as the empty string.
C5_SearchPredicate ==
  Filtered =>
    \A feature \in Range(zoningData.features) :
      LET props == feature.properties
      IN  ( /\ CategoryPasses(props, filters)
            /\ AreaPasses(props, filters)
            /\ ~ YearRejects(FilterYear(props), filters) ) =>
            /\ OnMap(feature) <=> SearchPasses(props, filters)
            /\ ( \A x \in {props.ZONING, props.z_group, props.PD_NAME,
                           props.ZONINGOLD} : ~ Present(x) ) =>
                 (OnMap(feature) <=> filters.search = <<>>)

C5_Witness ==
  /\ Filtered
  /\ filters.search = <<"R","e","s","i">>
  /\ \E feature \in Range(mapSource.features) :
       /\ feature.properties.z_group = Str(Commercial)
       /\ feature.properties.PD_NAME = Str(<<"P","r","e","s","i","d","i","o">>)
       /\ feature.properties.ZONING = Undef
       /\ feature.properties.ZONINGOLD = Undef

\* C6: an export executed while no feature matches downloads no file and shows
\* no success notification, whatever happened since the dialog was opened.
C6_EmptyExportAborted ==
  /\ emitted.download # Null => Len(emitted.download.features) > 0
  /\ (emitted.notification # Null /\ emitted.notification.type = "info") =>
       emitted.notification.count > 0

\* C7: executeExport with no field selected shows an error notification,
\* downloads nothing, shows no success notification, and leaves the dialog open
\* and the filter configuration (and the map's data) as they were.
C7_ZeroFieldsAborts ==
  [][ \A format \in ExportFormats :
        ExecuteExport(format, {}) =>
          /\ emitted'.download = Null
          /\ emitted'.notification # Null
          /\ emitted'.notification.type = "error"
          /\ exportModal'.open
          /\ exportModal' = exportModal
          /\ filters' = filters
          /\ mapSource' = mapSource ]_vars

C7_Witness ==
  /\ emitted.notification # Null
  /\ emitted.notification.message = "Please select at least one field to export"
  /\ emitted.download = Null
  /\ exportModal.open
  /\ filters # DefaultFilters

\* C8: once the GeoJSON data has loaded, the features an export would write are
\* the features held by the map's zoning source, in every reachable state.
C8_ExportEqualsMapSource ==
  mode = "geojson" =>
    GetCurrentFilteredData(zoningData, filters) = mapSource.features

\* The four conditions of a filter configuration as a layer filter expression.
FilterExpression(f) ==
  [t |-> "expression", group |-> f.group, yearMin |-> f.yearMin,
   yearMax |-> f.yearMax, areaMin |-> f.areaMin, areaMax |-> f.areaMax,
   search |-> f.search]

\* C9: in tiled mode every change of the filter configuration is compiled into
\* a filter on the zoning layer that expresses the new configuration.
C9_TiledFilterFollowsConfig ==
  [][ (mode = "pmtiles" /\ filters' # filters) =>
        layerFilter' = FilterExpression(filters') ]_vars

RECURSIVE SumValues(_)
SumValues(obj) ==
  IF DOMAIN obj = {} THEN 0
  ELSE LET k == CHOOSE k \in DOMAIN obj : TRUE
       IN  obj[k] + SumValues([x \in DOMAIN obj \ {k} |-> obj[x]])

RECURSIVE SumAreas(_)
SumAreas(features) ==
  IF features = <<>> THEN 0
  ELSE AreaOf(Head(features).properties) + SumAreas(Tail(features))

CategoryOf(props) ==
  IF Present(props.z_group) THEN props.z_group.str ELSE <<"O","t","h","e","r">>

CodeOf(props) ==
  IF Present(props.ZONING) THEN props.ZONING.str ELSE <<"U","n","k","n","o","w","n">>

CountedUnder(features, y) ==
  {i \in 1..Len(features) : EffectiveYear(features[i].properties) = Num(y)}

\* The positions of the features that have an effective year.
WithYear(features) ==
  {i \in 1..Len(features) : EffectiveYear(features[i].properties) # Null}

\* C11: the values of countByYear add up to the number of input features that
\* have a parseable effective year, and each such feature is counted exactly
\* once, under its own year.
C11_CountByYear ==
  analytics.built =>
    LET fs == zoningData.features
        d == analytics.data
    IN  /\ SumValues(d.countsByYear) = Cardinality(WithYear(fs))
        /\ DOMAIN d.countsByYear =
             {EffectiveYear(fs[i].properties).num : i \in WithYear(fs)}
        /\ \A y \in DOMAIN d.countsByYear :
             d.countsByYear[y] = Cardinality(CountedUnder(fs, y))

\* The same statement over the inputs whose first present date attribute is
\* also the first truthy one.
C11_CountByYearTruthyDates ==
  (analytics.built /\ \A x \in Range(zoningData.features) :
                        AnalyticsYear(x.properties) = FirstPresentYear(x.properties)) =>
    C11_CountByYear

\* C12: a search box input event applies no filter and leaves exactly one
\* scheduled call, due a full debounce delay later; the call runs only when
\* that delay has passed with no further input, applies the filter once with
\* the text the box then holds, and leaves no call pending; no call other
\* than the one scheduled last is ever pending, so a superseded call never runs.
C12_SearchDebounce ==
  [][ /\ \A call \in timeouts' : call.id = searchTimeout'
      /\ Cardinality(timeouts') <= 1
      /\ (searchBox' # searchBox) =>
            /\ ~ handled'.applied
            /\ filters' = filters /\ mapSource' = mapSource
            /\ timeouts' = {[id |-> searchTimeout', left |-> DebounceDelay]}
      /\ (handled'.event = "timeout") =>
            /\ timeouts = {[id |-> searchTimeout, left |-> 0]}
            /\ timeouts' = {}
            /\ handled'.applied
            /\ filters'.search = searchBox
            /\ mode = "geojson" =>
                  \A x \in Range(zoningData.features) :
                    OnMap(x)' <=> ApplyFiltersKeep(x, [filters EXCEPT !.search = searchBox])
    ]_vars

C12_Witness ==
  /\ mode = "geojson"
  /\ handled.event = "timeout"
  /\ filters.search = <<"z","z","z">>
  /\ searchBox = <<"z","z","z">>
  /\ mapSource.features = <<>>
  /\ zoningData.features # <<>>

\* C13: input events of the year and area sliders are debounced: of two slider
\* events with less than the delay (here no time at all) between them, at most
\* one triggers a recomputation of the filter.
C13_SliderBurstAppliesOnce ==
  [][ ~ /\ handled.event = "slider" /\ handled.applied
        /\ handled'.event = "slider" /\ handled'.applied ]_vars

LoadFailureNotice ==
  [type |-> "error", message |-> "Failed to load data. Please refresh the page."]

\* C14: a failed data fetch is reported by one error notification and is not
\* retried; the controls are wired all the same, and every later event of a
\* filter control updates the filter configuration, calls the filter and
\* returns without touching the map and without an exception.
C14_FetchFailure ==
  /\ [](mode = "failed" =>
          /\ \E value \in GroupChoices : ENABLED GroupChange(value)
          /\ \E value \in YearMinChoices : ENABLED YearMinInput(value)
          /\ \E text \in SearchTexts : ENABLED SearchInput(text))
  /\ [][ /\ (mode = "loading" /\ mode' = "failed") =>
              (emitted'.notification = LoadFailureNotice /\ emitted'.download = Null)
         /\ mode = "failed" =>
              /\ mode' = "failed" /\ zoningData' = zoningData
              /\ handled'.event # "none" => emitted'.notification # LoadFailureNotice
              /\ mapSource' = mapSource /\ mapSource = Null
              /\ layerFilter' = layerFilter /\ layers' = layers
              /\ ~ thrown'
              /\ handled'.event = "slider" =>
                    (filters' # filters /\ handled'.applied)
              /\ handled'.event = "timeout" =>
                    (filters'.search = searchBox /\ handled'.applied)
              /\ (filters' # filters) => handled'.applied
       ]_vars

C14_Witness ==
  /\ mode = "failed"
  /\ zoningData = Null
  /\ filters.group = Residential
  /\ filters.yearMin = 2000
  /\ filters.search = <<"z","z","z">>
  /\ handled.applied
  /\ mapSource = Null /\ layers = Null

\* What the charts of the panel show of a feature set: its aggregation when
\* all three are drawn on the panel's canvases, and nothing (which is right
\* for the empty set only) when the canvases are blank.
ChartsShow(features) ==
  IF \A slot \in Slots : charts.ref[slot] = "current"
    THEN analytics.built /\ analytics.data = Aggregate(features)
    ELSE features = <<>>

\* C15: after every application of the filter processed while the analytics
\* panel is open, the charts show the aggregation of exactly the filtered
\* feature set of that moment, the empty set included, with nothing left
\* over from an earlier set.
C15_ChartsFollowFilter ==
  [][ (handled'.applied /\ mode = "geojson" /\ analyticsPanel = "shown") =>
        ChartsShow(mapSource.features)' ]_vars

\* The filter parameters other than the two visibility flags.
FilterParameters(f) ==
  <<f.group, f.yearMin, f.yearMax, f.areaMin, f.areaMax, f.search>>

\* C16: once the layers are on the map, each layer's visibility equals its
\* flag (zoning visible and FLU hidden at first); a change of showZoning sets
\* zoning-fill and zoning-border alike and leaves showFLU, flu-fill, the other
\* filter parameters and the filtered feature set alone, and symmetrically a
\* change of showFLU.
C16_TogglesIndependent ==
  /\ [](layers # Null =>
          /\ layers.zoningFill = (IF filters.showZoning THEN "visible" ELSE "none")
          /\ layers.zoningBorder = layers.zoningFill
          /\ layers.fluFill = (IF filters.showFLU THEN "visible" ELSE "none"))
  /\ [][ /\ (layers = Null /\ layers' # Null) =>
              (filters'.showZoning /\ ~ filters'.showFLU)
         /\ (filters'.showZoning # filters.showZoning) =>
              /\ filters'.showFLU = filters.showFLU
              /\ layers # Null => layers'.fluFill = layers.fluFill
              /\ FilterParameters(filters') = FilterParameters(filters)
              /\ mapSource' = mapSource /\ layerFilter' = layerFilter
         /\ (filters'.showFLU # filters.showFLU) =>
              /\ filters'.showZoning = filters.showZoning
              /\ layers # Null => (/\ layers'.zoningFill = layers.zoningFill
                                   /\ layers'.zoningBorder = layers.zoningBorder)
              /\ FilterParameters(filters') = FilterParameters(filters)
              /\ mapSource' = mapSource /\ layerFilter' = layerFilter
       ]_vars

C16_Witness ==
  /\ mode = "geojson"
  /\ ~ filters.showZoning /\ filters.showFLU
  /\ layers.zoningFill = "none" /\ layers.zoningBorder = "none"
  /\ layers.fluFill = "visible"
  /\ filters.group = Residential
  /\ Len(mapSource.features) = 1

\* The attributes a written feature must have: those of the source feature
\* that are among the selected fields, with the source's values.
SelectedAttributes(out, feature, fields) ==
  /\ DOMAIN out.properties \subseteq Range(fields)
  /\ \A key \in DOMAIN out.properties :
       out.properties[key] = feature.properties[key]
  /\ \A key \in Range(fields) \cap DOMAIN feature.properties :
       Present(feature.properties[key]) => key \in DOMAIN out.properties

\* C17: a GeoJSON or JSON export holds one feature per filtered feature, in
\* input order, each with the original geometry and, as attributes, selected
\* fields only, with the original values; the JSON form also keeps every
\* other top-level member of the feature.  The source features stay as they
\* were.
C17_GeoJsonAndJsonExport ==
  /\ [](emitted.download # Null =>
          LET file == emitted.download
              data == zoningData.features
          IN  /\ file.format = "geojson" =>
                   /\ file.content.type = "FeatureCollection"
                   /\ DOMAIN file.content.features = 1..Len(data)
                   /\ \A i \in 1..Len(data) :
                        LET out == file.content.features[i]
                        IN  /\ DOMAIN out = {"type", "geometry", "properties"}
                            /\ out.type = "Feature"
                            /\ out.geometry = data[i].geometry
                            /\ SelectedAttributes(out, data[i], file.fields)
              /\ file.format = "json" =>
                   /\ DOMAIN file.content = 1..Len(data)
                   /\ \A i \in 1..Len(data) :
                        LET out == file.content[i]
                        IN  /\ DOMAIN out = DOMAIN data[i]
                            /\ \A key \in DOMAIN out \ {"properties"} :
                                 out[key] = data[i][key]
                            /\ SelectedAttributes(out, data[i], file.fields))
  /\ [][zoningData' = zoningData]_vars

C17_Witness ==
  /\ emitted.download # Null
  /\ emitted.download.format = "json"
  /\ emitted.download.fields = <<"ZONING">>
  /\ Len(zoningData.features) = 2
  /\ "id" \in DOMAIN emitted.download.content[1]
  /\ "id" \notin DOMAIN emitted.download.content[2]
  /\ DOMAIN emitted.download.content[1].properties = {}
  /\ DOMAIN emitted.download.content[2].properties = {"ZONING"}
  /\ Present(zoningData.features[2].properties.area_acres)

\* The cell the CSV format prescribes for a value: empty for null or absent,
\* the text in double quotes with its quotes doubled when it holds a comma,
\* and the text as it is otherwise.
CellFor(value) ==
  IF ~ Present(value) THEN <<>>
  ELSE IF \E i \in 1..Len(StringOf(value)) : StringOf(value)[i] = ","
    THEN <<"\"">> \o DoubleQuotes(StringOf(value)) \o <<"\"">>
    ELSE StringOf(value)

\* The lines of the prescribed CSV: the header, then one row per feature.
LinesFor(data, fields) ==
  <<Join([i \in 1..Len(fields) |-> FieldText[fields[i]]], <<",">>)>> \o
  [r \in 1..Len(data) |->
     Join([i \in 1..Len(fields) |-> CellFor(data[r].properties[fields[i]])],
          <<",">>)]

\* C18: the CSV output is the header row of the selected field names and one
\* row per feature in input order; a cell is empty for a null or absent
\* value, is in double quotes with its quotes doubled when its text holds a
\* comma, and is the text unchanged when it holds none.
C18_CsvCellFormat ==
  (emitted.download # Null /\ emitted.download.format = "csv") =>
    emitted.download.content =
      Join(LinesFor(zoningData.features, emitted.download.fields), <<"\n">>)

\* The same statement over the inputs in which every text with a double quote
\* also has a comma.
C18_CsvCellFormatQuotesWithCommas ==
  (\A x \in Range(zoningData.features) :
     x.properties.ZONING # Str(<<"q", "\"">>)) => C18_CsvCellFormat

\* A standard CSV reader (RFC 4180): a cell that starts with a double quote
\* runs to its closing quote, a doubled quote inside it standing for one; any
\* other cell runs to the next comma or line break.  An empty line is a row of
\* one empty cell.
RECURSIVE ReadCsvFrom(_, _, _, _, _, _)
ReadCsvFrom(text, i, quoted, cell, row, rows) ==
  IF i > Len(text) THEN rows \o <<row \o <<cell>>>>
  ELSE IF quoted
    THEN IF text[i] = "\""
           THEN IF i < Len(text) /\ text[i + 1] = "\""
                  THEN ReadCsvFrom(text, i + 2, TRUE, cell \o <<"\"">>, row, rows)
                  ELSE ReadCsvFrom(text, i + 1, FALSE, cell, row, rows)
           ELSE ReadCsvFrom(text, i + 1, TRUE, cell \o <<text[i]>>, row, rows)
    ELSE IF text[i] = ","
           THEN ReadCsvFrom(text, i + 1, FALSE, <<>>, row \o <<cell>>, rows)
         ELSE IF text[i] = "\n"
           THEN ReadCsvFrom(text, i + 1, FALSE, <<>>, <<>>, rows \o <<row \o <<cell>>>>)
         ELSE IF text[i] = "\"" /\ cell = <<>>
           THEN ReadCsvFrom(text, i + 1, TRUE, <<>>, row, rows)
         ELSE ReadCsvFrom(text, i + 1, FALSE, cell \o <<text[i]>>, row, rows)

ReadCsv(text) == ReadCsvFrom(text, 1, FALSE, <<>>, <<>>, <<>>)

\* The text a cell value reads back as: empty for null or absent.
CellText(value) == IF Present(value) THEN StringOf(value) ELSE <<>>

\* C19: an exported CSV read back by a standard CSV reader has one row per
\* feature after the header and one column per selected field, and every cell
\* reads back as the text of the original value, for values with commas,
\* double quotes and line breaks.
C19_CsvRoundTrip ==
  (emitted.download # Null /\ emitted.download.format = "csv") =>
    LET data == zoningData.features
        fields == emitted.download.fields
        rows == ReadCsv(emitted.download.content)
    IN  /\ Len(rows) = Len(data) + 1
        /\ \A r \in 1..Len(rows) : Len(rows[r]) = Len(fields)
        /\ rows[1] = [i \in 1..Len(fields) |-> FieldText[fields[i]]]
        /\ \A r \in 1..Len(data) :
             rows[r + 1] =
               [i \in 1..Len(fields) |-> CellText(data[r].properties[fields[i]])]

\* The same statement over the inputs with no line break in a text and no
\* double quote in a text without a comma.
C19_CsvRoundTripPlainTexts ==
  (\A x \in Range(zoningData.features) :
     x.properties.ZONING \notin {Str(<<"q", "\"">>), Str(<<"x", "\n", "y">>)})
    => C19_CsvRoundTrip

\* C20: whenever a handler has completed, each chart slot has at most one
\* live Chart instance, and no live instance is drawn on a canvas of a panel
\* that has been removed from the document.
C20_ChartInstancesCleanedUp ==
  \A slot \in Slots :
    /\ charts.live[slot].current + charts.live[slot].removed <= 1
    /\ charts.live[slot].removed = 0

\* The part of the statement about the number of instances per slot.
C20_OneInstancePerSlot ==
  \A slot \in Slots : charts.live[slot].current + charts.live[slot].removed <= 1

\* The features the in-memory filter keeps of the loaded collection under a
\* filter configuration.
KeptUnder(f) ==
  SelectSeq(zoningData.features, LAMBDA x : ApplyFiltersKeep(x, f))

\* C21: filtering, export and aggregation never modify the loaded feature
\* collection, and the set given to the map depends on the filter
\* configuration alone: it is what the filter keeps of the loaded collection
\* under state.filters, so that narrowing a filter and restoring its value
\* brings back exactly the features shown before.
C21_NonDestructiveFiltering ==
  /\ [](mode = "geojson" => mapSource.features = KeptUnder(filters))
  /\ [][mode # "loading" => zoningData' = zoningData]_vars

\* The same statement from the first application of the filter on: every
\* handler that applies the filter gives the map what the filter keeps under
\* the configuration it leaves, and no other handler changes the map's set.
C21_AfterFirstApplication ==
  [][ /\ mode # "loading" => zoningData' = zoningData
      /\ (mode = "geojson" /\ handled'.applied) =>
           mapSource'.features = KeptUnder(filters')
      /\ (mode = "geojson" /\ ~ handled'.applied) =>
           (mapSource' = mapSource /\ filters' = filters) ]_vars

\* The value every control holds: the sliders and the category selector write
\* theirs to state.filters at once, the search box holds its own text.
ControlValues == [filters EXCEPT !.search = searchBox]

\* The map shows what a filter configuration selects: in memory the source
\* holds what the filter keeps, in tiled mode the zoning layer carries the
\* configuration as its filter.
MapShows(f) ==
  /\ mode = "geojson" => mapSource.features = KeptUnder(f)
  /\ mode = "pmtiles" => layerFilter = FilterExpression(f)

MapFollowsFilters == MapShows(filters)
MapFollowsControls == MapShows(ControlValues)

\* C22: a category or slider event handled while a search call is pending
\* filters with the search text applied last, not with the text in the box,
\* and leaves the pending call as it is; when the pending call has run and no
\* call is pending, state.filters.search is the text of the search box, and
\* from then on, as long as no call is pending, every application of the
\* filter gives the map the set selected by the value every control holds.
C22_InterleavedInputConsistency ==
  /\ [](Wired /\ timeouts = {} => filters = ControlValues)
  /\ [][ /\ (timeouts # {} /\ handled'.event \in {"slider", "other"}
                /\ handled'.applied) =>
              /\ timeouts' = timeouts /\ searchTimeout' = searchTimeout
              /\ filters'.search = filters.search
              /\ MapFollowsFilters'
         /\ (timeouts' = {} /\ handled'.applied) =>
              /\ filters'.search = searchBox'
              /\ MapFollowsControls'
       ]_vars

\* The same statement for the data set held in memory.
C22_InMemoryConsistency ==
  /\ [](Wired /\ timeouts = {} => filters = ControlValues)
  /\ [][ /\ (timeouts # {} /\ handled'.event \in {"slider", "other"}
                /\ handled'.applied) =>
              /\ timeouts' = timeouts /\ searchTimeout' = searchTimeout
              /\ filters'.search = filters.search
              /\ mode = "geojson" => mapSource'.features = KeptUnder(filters')
         /\ (timeouts' = {} /\ handled'.applied) =>
              /\ filters'.search = searchBox'
              /\ mode = "geojson" =>
                   mapSource'.features = KeptUnder(ControlValues')
       ]_vars

\* A slider event has been handled while a search call was pending: the box
\* holds a text that the filter has not been given yet.
C22_Witness ==
  /\ mode = "geojson"
  /\ handled = Handled("slider", TRUE)
  /\ timeouts # {}
  /\ searchBox = <<"R", "e", "s", "i">>
  /\ filters.search = <<>>
  /\ filters # DefaultFilters
  /\ mapSource.features = KeptUnder(filters)
  /\ mapSource.features # KeptUnder(ControlValues)

\* The pending call has run after interleaved slider input.
C22_Settled ==
  /\ mode = "geojson"
  /\ handled = Handled("timeout", TRUE)
  /\ timeouts = {}
  /\ filters.search = <<"R", "e", "s", "i">>
  /\ filters.yearMin = 2000
  /\ mapSource.features # <<>>
  /\ mapSource.features # zoningData.features

\* C23: the document never holds more than one zoning-information panel; a
\* feature click leaves exactly one panel, that of the feature clicked, the
\* panel that was there before being gone; a click on the close button leaves
\* none; and no other handler adds, removes or changes a panel, so the panel
\* shown is that of the feature selected last.
C23_SingleInfoPanel ==
  /\ [](Len(infoPanels) <= 1)
  /\ [][ /\ \A feature \in TileFeatures \cup {FeatB, FeatC} :
              SelectFeature(feature) =>
                 infoPanels' = <<InfoPanel(feature)>>
         /\ CloseInfoPanel => infoPanels' = <<>>
         /\ infoPanels' # infoPanels =>
              \/ CloseInfoPanel
              \/ \E feature \in Clickable : SelectFeature(feature)
       ]_vars

\* A feature has just been selected in a filtered map: the one panel in the
\* document is that feature's.
C23_Witness ==
  /\ mode = "geojson"
  /\ handled = Handled("select", FALSE)
  /\ infoPanels = <<InfoPanel(FeatC)>>
  /\ filters.group = Residential
  /\ FeatA \in Range(mapSource.features)

====
